---- MODULE Spec2Model ----
(***************************************************************************)
(* Model of the GAD demo engine (gad-demo/backend/app/mock_data.py):       *)
(* gate evaluation, scoring, survivor selection, the per-generation data   *)
(* and the run that create_sample_run builds; the validation of Metrics    *)
(* (models.py); prompt DNA, DNA bundles and the lookups of the API         *)
(* (main.py); and the lineage of the fixed run of the backend variant      *)
(* (backend/app/demo_data.py).                                             *)
(*                                                                         *)
(* Number representation.  Fractions in [0,1] (test_pass_rate, coverage)   *)
(* are held in percent, scores in [0,100] in points, weights in            *)
(* hundredths, and every score the scoring code produces (the entries of   *)
(* weighted_scores and effective_score) in units of 1/200 point, so that   *)
(* the 0.5 gate penalty is exact.  random.random() is held in fifths:      *)
(* a draw k stands for the value k/5, k in 0..4.                           *)
(* Optional values are sequences: <<>> is None, <<x>> is x.                *)
(***************************************************************************)
EXTENDS Integers, Sequences, FiniteSets, TLC

VARIABLES
    metrics,        \* the Metrics value handed to gate evaluation and scoring
    evaluation,     \* what generate_candidate derives from it (None before)
    call,           \* arguments of one generate_generation call
    generation,     \* the Generation that call returned (None before)
    generations,    \* create_sample_run: the list of generations built so far
    parent_ids,     \* create_sample_run: survivors of the last generation
    pc,             \* create_sample_run: "loop" while building, "done" after
    responses,      \* the responses the API has served, in order
    clock,          \* the time datetime.now() last returned
    created_candidates  \* generate_generation: the candidates as created

vars == <<metrics, evaluation, call, generation, generations, parent_ids, pc,
          responses, clock, created_candidates>>

None == <<>>
Some(x) == <<x>>

(***************************************************************************)
(* Gates: generate_gate_results                                            *)
(***************************************************************************)
MinTestPassRate == 80       \* 0.8, in percent
SecurityThreshold == 70
MaxVulnerabilities == 0

generate_gate_results_any(m) ==
    LET gates == <<
            [gate_name |-> "Minimum Test Pass Rate",
             passed    |-> m.test_pass_rate >= MinTestPassRate,
             threshold |-> Some(MinTestPassRate),
             actual    |-> Some(m.test_pass_rate)],
            [gate_name |-> "Security Threshold",
             passed    |-> m.security_score >= SecurityThreshold,
             threshold |-> Some(SecurityThreshold),
             actual    |-> Some(m.security_score)],
            [gate_name |-> "Zero Critical Vulnerabilities",
             passed    |-> m.vulnerability_count = MaxVulnerabilities,
             threshold |-> Some(MaxVulnerabilities),
             actual    |-> Some(m.vulnerability_count)],
            [gate_name |-> "License Compliance",
             passed    |-> m.license_compliance,
             threshold |-> None,
             actual    |-> None] >>
    IN  [all_passed |-> \E i \in 1..Len(gates) : gates[i].passed,
         gates      |-> gates]

generate_gate_results_short_circuit(m) ==
    LET g1 == [gate_name |-> "Minimum Test Pass Rate",
               passed    |-> m.test_pass_rate >= MinTestPassRate,
               threshold |-> Some(MinTestPassRate),
               actual    |-> Some(m.test_pass_rate)]
        g2 == [gate_name |-> "Security Threshold",
               passed    |-> m.security_score >= SecurityThreshold,
               threshold |-> Some(SecurityThreshold),
               actual    |-> Some(m.security_score)]
        g3 == [gate_name |-> "Zero Critical Vulnerabilities",
               passed    |-> m.vulnerability_count = MaxVulnerabilities,
               threshold |-> Some(MaxVulnerabilities),
               actual    |-> Some(m.vulnerability_count)]
        g4 == [gate_name |-> "License Compliance",
               passed    |-> m.license_compliance,
               threshold |-> None,
               actual    |-> None]
        gates == IF ~g1.passed THEN <<g1>>
                 ELSE IF ~g2.passed THEN <<g1, g2>>
                 ELSE IF ~g3.passed THEN <<g1, g2, g3>>
                 ELSE <<g1, g2, g3, g4>>
    IN  [all_passed |-> \A i \in 1..Len(gates) : gates[i].passed,
         gates      |-> gates]

\* The four gates, always all of them, and the AND of their passed flags.
generate_gate_results(m) ==
    LET gates == <<
            [gate_name |-> "Minimum Test Pass Rate",
             passed    |-> m.test_pass_rate >= MinTestPassRate,
             threshold |-> Some(MinTestPassRate),
             actual    |-> Some(m.test_pass_rate)],
            [gate_name |-> "Security Threshold",
             passed    |-> m.security_score >= SecurityThreshold,
             threshold |-> Some(SecurityThreshold),
             actual    |-> Some(m.security_score)],
            [gate_name |-> "Zero Critical Vulnerabilities",
             passed    |-> m.vulnerability_count = MaxVulnerabilities,
             threshold |-> Some(MaxVulnerabilities),
             actual    |-> Some(m.vulnerability_count)],
            [gate_name |-> "License Compliance",
             passed    |-> m.license_compliance,
             threshold |-> None,
             actual    |-> None] >>
    IN  [all_passed |-> \A i \in 1..Len(gates) : gates[i].passed,
         gates      |-> gates]

(***************************************************************************)
(* Scoring: the body of generate_candidate                                 *)
(***************************************************************************)
\* weights, in hundredths
weights ==
    [test_pass_rate |-> 25, security |-> 25, performance |-> 15,
     ux |-> 15, coverage |-> 10, style |-> 10]

\* value * weight, in 1/200 point (value in points or percent, weight in
\* hundredths: value * weight is in 1/100 point)
Term(value, weight) == value * weight * 2

effective_score_flat_penalty(m, gates_passed) ==
    LET total == Term(m.test_pass_rate, weights.test_pass_rate)
               + Term(m.security_score, weights.security)
               + Term(m.performance_score, weights.performance)
               + Term(m.ux_score, weights.ux)
               + Term(m.coverage, weights.coverage)
               + Term(m.style_score, weights.style)
    IN  IF ~gates_passed THEN total - 5000 ELSE total

effective_score_no_style(m, gates_passed) ==
    LET total == Term(m.test_pass_rate, weights.test_pass_rate)
               + Term(m.security_score, weights.security)
               + Term(m.performance_score, weights.performance)
               + Term(m.ux_score, weights.ux)
               + Term(m.coverage, weights.coverage)
    IN  IF ~gates_passed THEN total \div 2 ELSE total

\* effective_score: the weighted sum, halved when the gates did not pass
\* (the sum is an even number of 1/200 points, so the halving is exact)
effective_score(m, gates_passed) ==
    LET total == Term(m.test_pass_rate, weights.test_pass_rate)
               + Term(m.security_score, weights.security)
               + Term(m.performance_score, weights.performance)
               + Term(m.ux_score, weights.ux)
               + Term(m.coverage, weights.coverage)
               + Term(m.style_score, weights.style)
    IN  IF ~gates_passed THEN total \div 2 ELSE total

weighted_scores(m) ==
    [test_pass_rate |-> Term(m.test_pass_rate, weights.test_pass_rate),
     security       |-> Term(m.security_score, weights.security),
     performance    |-> Term(m.performance_score, weights.performance),
     ux             |-> Term(m.ux_score, weights.ux),
     coverage       |-> Term(m.coverage, weights.coverage),
     style          |-> Term(m.style_score, weights.style)]

\* What generate_candidate derives from a Metrics value: gates, then scores.
Evaluate(m) ==
    LET r == generate_gate_results(m)
    IN  [gates_passed    |-> r.all_passed,
         gate_results    |-> r.gates,
         effective_score |-> effective_score(m, r.all_passed),
         weighted_scores |-> weighted_scores(m)]

(***************************************************************************)
(* Metrics values (models.py: Metrics).  The grid holds, for each field a  *)
(* gate reads, the values on both sides of its threshold and the threshold *)
(* itself.                                                                 *)
(***************************************************************************)
MetricsGrid ==
    [test_pass_rate      : {50, 79, 80, 95},
     coverage            : {50, 90},
     performance_score   : {50, 85},
     security_score      : {40, 69, 70, 90},
     ux_score            : {50, 80},
     style_score         : {60, 90},
     license_compliance  : BOOLEAN,
     vulnerability_count : {0, 1, 3}]

(***************************************************************************)
(* Random draws.  Every call of random.random(), random.randint() and      *)
(* random.sample() is an input of the model.  A draw record of a candidate *)
(* holds the outcome of each call generate_generation and generate_metrics *)
(* make for it:                                                            *)
(*   is_good  the outcome of random.random() < 0.3 + gen_num * 0.15        *)
(*            (the probability is in (0,1) for gen_num <= 4: either way)   *)
(*   perf     random.random() of performance_score, in fifths              *)
(*   sec      random.random() of security_score, in fifths                 *)
(*   other    random.random() of the other four scores, in fifths          *)
(*   lic      random.random() of license_compliance, in fifths             *)
(*   vuln     random.randint(lo, hi) - lo of vulnerability_count           *)
(*   parents  random.sample(parent_candidates, min(2, len))                *)
(*   agent    random.randint(1, 3) of generator_agent_id                   *)
(***************************************************************************)
Min(a, b) == IF a < b THEN a ELSE b
Max(a, b) == IF a < b THEN b ELSE a

\* A sampling that ignores k and takes every entry of the population, in any
\* order.
sample_whole_population(population, k) ==
    { [i \in 1..Len(population) |-> population[p[i]]] :
        p \in { q \in [1..Len(population) -> 1..Len(population)] :
                  \A i, j \in 1..Len(population) : i # j => q[i] # q[j] } }

\* random.sample(population, k): k entries at distinct positions, in any order
sample(population, k) ==
    { [i \in 1..k |-> population[p[i]]] :
        p \in { q \in [1..k -> 1..Len(population)] :
                  \A i, j \in 1..k : i # j => q[i] # q[j] } }

\* generate_metrics: x + random.random() * w with the draw k for random.random()
\* is x + k * w / 5; random.random() > 0.3 is k / 5 > 3 / 10.
generate_metrics(is_good, d) ==
    IF is_good
    THEN [test_pass_rate      |-> 95 + d.other,
          coverage            |-> 85 + 2 * d.other,
          performance_score   |-> 85 + 2 * d.perf,
          security_score      |-> 90 + 2 * d.sec,
          ux_score            |-> 80 + 3 * d.other,
          style_score         |-> 90 + 2 * d.other,
          license_compliance  |-> TRUE,
          vulnerability_count |-> 0 + d.vuln]
    ELSE [test_pass_rate      |-> 60 + 4 * d.other,
          coverage            |-> 50 + 4 * d.other,
          performance_score   |-> 50 + 6 * d.perf,
          security_score      |-> 40 + 8 * d.sec,
          ux_score            |-> 50 + 6 * d.other,
          style_score         |-> 60 + 6 * d.other,
          license_compliance  |-> d.lic * 10 > 15,
          vulnerability_count |-> 2 + d.vuln]

\* The draws of one candidate: `axes` are the pairs <<perf, sec>> the draws of
\* the two Pareto axes of a good candidate range over.  The other score draws
\* are held at 0, and so are those of a bad candidate, which fails its gates
\* whatever they are (vulnerability_count >= 2).
CandidateDraws(axes, parent_candidates) ==
    { [is_good |-> TRUE, perf |-> a[1], sec |-> a[2], other |-> 0, lic |-> 0,
       vuln |-> v, parents |-> p, agent |-> 1] :
        a \in axes, v \in {0, 1},
        p \in sample(parent_candidates, Min(2, Len(parent_candidates))) }
    \cup
    { [is_good |-> FALSE, perf |-> 0, sec |-> 0, other |-> 0, lic |-> 0,
       vuln |-> 0, parents |-> p, agent |-> 1] :
        p \in sample(parent_candidates, Min(2, Len(parent_candidates))) }

(***************************************************************************)
(* generate_candidate                                                      *)
(***************************************************************************)
cand_id(gen_num, candidate_num) == [gen |-> gen_num, cand |-> candidate_num]

\* f"{n:03d}": the decimal digits of n, padded with zeros to three
zero_padded_3(n) ==
    (IF n < 10 THEN "00" ELSE IF n < 100 THEN "0" ELSE "") \o ToString(n)

\* The digits padded to two places only
generator_agent_id_two_digits(n) ==
    "generator-" \o (IF n < 10 THEN "0" ELSE "") \o ToString(n)

\* f"generator-{random.randint(1, 3):03d}" with n the outcome of randint
generator_agent_id(n) == "generator-" \o zero_padded_3(n)

\* generate_candidate from the point where generate_metrics has returned m:
\* gates, scores and the Candidate object
candidate_with_metrics(gen_num, candidate_num, parents, m, agent) ==
    LET e == Evaluate(m)
    IN  [id                    |-> cand_id(gen_num, candidate_num),
         generation            |-> gen_num,
         parent_ids            |-> parents,
         metrics               |-> m,
         effective_score       |-> e.effective_score,
         weighted_scores       |-> e.weighted_scores,
         gates_passed          |-> e.gates_passed,
         gate_results          |-> e.gate_results,
         is_pareto_front       |-> FALSE,
         selected_for_breeding |-> FALSE,
         survival_reason       |-> None,
         generator_agent_id    |-> generator_agent_id(agent)]

generate_candidate(gen_num, candidate_num, parents, is_good, d) ==
    candidate_with_metrics(gen_num, candidate_num, parents,
                           generate_metrics(is_good, d), d.agent)

(***************************************************************************)
(* generate_generation                                                     *)
(***************************************************************************)
\* [c for c in candidates if c.gates_passed], keeping the order
RECURSIVE filter_gates_passed(_)
filter_gates_passed(s) ==
    IF s = <<>> THEN <<>>
    ELSE IF Head(s).gates_passed
         THEN <<Head(s)>> \o filter_gates_passed(Tail(s))
         ELSE filter_gates_passed(Tail(s))

\* A descending sort made of an ascending sort read backwards: entries of
\* equal key come out in the reverse of the order they had.
RECURSIVE sort_ascending_then_reversed(_)
sort_ascending_then_reversed(s) ==
    IF s = <<>> THEN <<>>
    ELSE LET h    == Head(s)
             rest == sort_ascending_then_reversed(Tail(s))
             n    == Cardinality({ i \in 1..Len(rest) :
                                     rest[i].effective_score >= h.effective_score })
         IN  SubSeq(rest, 1, n) \o <<h>> \o SubSeq(rest, n + 1, Len(rest))

\* list.sort(key=lambda c: c.effective_score, reverse=True): a stable sort,
\* entries of equal key keep the order they had (also under reverse=True).
RECURSIVE sort_by_score_reverse(_)
sort_by_score_reverse(s) ==
    IF s = <<>> THEN <<>>
    ELSE LET h    == Head(s)
             rest == sort_by_score_reverse(Tail(s))
             \* entries of the sorted tail that stay in front of h
             n    == Cardinality({ i \in 1..Len(rest) :
                                     rest[i].effective_score > h.effective_score })
         IN  SubSeq(rest, 1, n) \o <<h>> \o SubSeq(rest, n + 1, Len(rest))

RECURSIVE sort_by_score_ascending(_)
sort_by_score_ascending(s) ==
    IF s = <<>> THEN <<>>
    ELSE LET h    == Head(s)
             rest == sort_by_score_ascending(Tail(s))
             n    == Cardinality({ i \in 1..Len(rest) :
                                     rest[i].effective_score < h.effective_score })
         IN  SubSeq(rest, 1, n) \o <<h>> \o SubSeq(rest, n + 1, Len(rest))

\* A sort whose key also reads the randomly drawn is_pareto_front flag: among
\* equal scores the flagged candidates come first.
RECURSIVE sort_by_score_then_flag(_)
sort_by_score_then_flag(s) ==
    IF s = <<>> THEN <<>>
    ELSE LET h    == Head(s)
             rest == sort_by_score_then_flag(Tail(s))
             n    == Cardinality({ i \in 1..Len(rest) :
                        \/ rest[i].effective_score > h.effective_score
                        \/ /\ rest[i].effective_score = h.effective_score
                           /\ rest[i].is_pareto_front
                           /\ ~h.is_pareto_front })
         IN  SubSeq(rest, 1, n) \o <<h>> \o SubSeq(rest, n + 1, Len(rest))

passing_candidates_flagged_first(candidates) ==
    sort_by_score_then_flag(filter_gates_passed(candidates))

passing_candidates_ascending(candidates) ==
    sort_by_score_ascending(filter_gates_passed(candidates))

\* passing_candidates: the gate-passing candidates, best effective_score first
passing_candidates(candidates) ==
    sort_by_score_reverse(filter_gates_passed(candidates))

MinSurvivors == 2
MaxSurvivors == 3

select_survivors_from_one(passing) ==
    IF Len(passing) >= 1
    THEN SubSeq(passing, 1, Min(MaxSurvivors, Len(passing)))
    ELSE <<>>

\* The second part of generate_generation, after the sort:
\* survivors = passing_candidates[:3] when at least 2 passed, else none
select_survivors(passing) ==
    IF Len(passing) >= MinSurvivors
    THEN SubSeq(passing, 1, Min(MaxSurvivors, Len(passing)))
    ELSE <<>>

\* A rank that finds only the top survivor: the others count as not surviving.
SurvivorRank_top_only(survivors, c) ==
    IF survivors # <<>> /\ survivors[1].id = c.id THEN 1 ELSE 0

\* The position of candidate c in the survivor list, 0 when it is not in it.
SurvivorRank(survivors, c) ==
    LET at == { i \in 1..Len(survivors) : survivors[i].id = c.id }
    IN  IF at = {} THEN 0 ELSE CHOOSE i \in at : TRUE

\* UCBStats of the three generators, in thousandths; u[i] is the draw of
\* random.random() in the i-th mean_reward.
ucb_allocations(gen_num, u) ==
    << [agent_id |-> "generator-001", mean_reward |-> 750 + 40 * u[1],
        confidence_interval |-> 50, exploration_bonus |-> 80,
        total_score |-> 880, times_selected |-> gen_num * 3 + 5],
       [agent_id |-> "generator-002", mean_reward |-> 700 + 30 * u[2],
        confidence_interval |-> 80, exploration_bonus |-> 120,
        total_score |-> 850, times_selected |-> gen_num * 2 + 4],
       [agent_id |-> "generator-003", mean_reward |-> 650 + 30 * u[3],
        confidence_interval |-> 100, exploration_bonus |-> 150,
        total_score |-> 820, times_selected |-> gen_num * 2 + 2] >>

\* Candidates numbered as of the generation after: generate_candidate is
\* handed gen_num + 1.
new_candidates_of_next_generation(gen_num, parent_candidates, draws) ==
    [i \in 1..Len(draws) |->
        generate_candidate(gen_num + 1, i - 1,
                           IF gen_num = 0 THEN <<>> ELSE draws[i].parents,
                           draws[i].is_good, draws[i])]

\* The first part of generate_generation: one generate_candidate per draw,
\* each with its parents sampled from parent_candidates.
new_candidates(gen_num, parent_candidates, draws) ==
    [i \in 1..Len(draws) |->
        generate_candidate(gen_num, i - 1,
                           IF gen_num = 0 THEN <<>> ELSE draws[i].parents,
                           draws[i].is_good, draws[i])]

\* A breeding-pair rule that chains neighbours in rank order, (s1,s2), (s2,s3),
\* instead of pairing the top survivor with each other one.
breeding_pairs_chained(survivors) ==
    [i \in 1..Max(0, Len(survivors) - 1) |->
        <<survivors[i].id, survivors[i + 1].id>>]

\* Breeding pairs, lines 320-325: the top survivor with the second and, when
\* there is one, with the third.
breeding_pairs(survivors) ==
    IF Len(survivors) >= 2
    THEN <<  <<survivors[1].id, survivors[2].id>>  >>
         \o (IF Len(survivors) >= 3
             THEN <<  <<survivors[1].id, survivors[3].id>>  >>
             ELSE <<>>)
    ELSE <<>>

\* An evaluation pass that writes a survival_reason on every candidate, also
\* on those that do not survive.
sealed_generation_reason_on_all(gen_num, created, survivors, pareto, ucb) ==
    LET candidates ==
            [i \in 1..Len(created) |->
                LET r == SurvivorRank(survivors, created[i])
                IN  IF r = 0
                    THEN [created[i] EXCEPT !.survival_reason = Some("Not selected")]
                    ELSE [created[i] EXCEPT
                            !.selected_for_breeding = TRUE,
                            !.is_pareto_front = pareto[r],
                            !.survival_reason =
                                Some(IF pareto[r] THEN "Pareto optimal"
                                     ELSE "High effective score")]]
    IN  [number          |-> gen_num,
         candidates      |-> candidates,
         pareto_front    |->
            [i \in 1..Len(created) |->
                [candidate_id |-> created[i].id,
                 objective1   |-> created[i].metrics.security_score,
                 objective2   |-> created[i].metrics.performance_score,
                 label        |-> created[i].id]],
         ucb_allocations |-> ucb_allocations(gen_num, ucb),
         survivors       |-> [i \in 1..Len(survivors) |-> survivors[i].id],
         breeding_pairs  |-> breeding_pairs(survivors)]

\* The third part of generate_generation: the survivors' fields are set (the
\* survivors are the candidates' own objects, so the entries of the candidate
\* list change), and the Generation is built.  pareto[r] is the outcome of
\* random.random() > 0.5 for the survivor of rank r, ucb the draws of the
\* mean rewards.
sealed_generation(gen_num, created, survivors, pareto, ucb) ==
    LET candidates ==
            [i \in 1..Len(created) |->
                LET r == SurvivorRank(survivors, created[i])
                IN  IF r = 0 THEN created[i]
                    ELSE [created[i] EXCEPT
                            !.selected_for_breeding = TRUE,
                            !.is_pareto_front = pareto[r],
                            !.survival_reason =
                                Some(IF pareto[r] THEN "Pareto optimal"
                                     ELSE "High effective score")]]
    IN  [number          |-> gen_num,
         candidates      |-> candidates,
         pareto_front    |->
            [i \in 1..Len(created) |->
                [candidate_id |-> created[i].id,
                 objective1   |-> created[i].metrics.security_score,
                 objective2   |-> created[i].metrics.performance_score,
                 label        |-> created[i].id]],
         ucb_allocations |-> ucb_allocations(gen_num, ucb),
         survivors       |-> [i \in 1..Len(survivors) |-> survivors[i].id],
         breeding_pairs  |-> breeding_pairs(survivors)]

\* num_candidates: 8 for generation 0, random.randint(6, 8) later; scaled to a
\* population of at most `population`.
InitialCandidates == 8
LaterCandidatesMin == 6

num_candidates(gen_num, population) ==
    IF gen_num = 0 THEN {population}
    ELSE Max(1, population - (InitialCandidates - LaterCandidatesMin))..population

(***************************************************************************)
(* Bounds of the model                                                     *)
(***************************************************************************)
GenCandidates == 4      \* population of a single generate_generation call
RunCandidates == 3      \* population of a generation of the run
RunGenerations == 2     \* generations create_sample_run builds (range(5))

\* draws <<perf, sec>> of the Pareto axes, in fifths: for a single generation
\* a base point, one that dominates it and one incomparable with that
GenAxes == {<<0, 0>>, <<2, 0>>, <<0, 2>>}
RunAxes == {<<0, 0>>}

(***************************************************************************)
(* Gate evaluation and scoring of one Metrics value                        *)
(***************************************************************************)
InitEval ==
    /\ metrics \in MetricsGrid
    /\ evaluation = None
    /\ call = None
    /\ generation = None
    /\ generations = <<>>
    /\ parent_ids = <<>>
    /\ pc = "idle"
    /\ responses = <<>>
    /\ clock = 0
    /\ created_candidates = <<>>

EvaluateMetrics ==
    /\ evaluation = None
    /\ evaluation' = Some(Evaluate(metrics))
    /\ UNCHANGED <<created_candidates, metrics, call, generation, generations, parent_ids, pc,
                 responses, clock>>

NextEval == EvaluateMetrics

SpecEval == InitEval /\ [][NextEval]_vars

(***************************************************************************)
(* Construction of a Metrics value (models.py) and its way into scoring    *)
(***************************************************************************)
\* A validation that checks the lower bounds only
field_errors_lower_bounds_only(kw) ==
    { f \in {"test_pass_rate", "coverage", "performance_score",
              "security_score", "ux_score", "style_score",
              "vulnerability_count"} : kw[f] < 0 }

\* The Field constraints of Metrics: the fields whose value violates its
\* ge / le bound (fractions in percent, so le=1 is 100).  license_compliance
\* has none.
field_errors(kw) ==
    { f \in {"test_pass_rate", "coverage", "performance_score",
              "security_score", "ux_score", "style_score"} :
        kw[f] < 0 \/ kw[f] > 100 }
    \cup { f \in {"vulnerability_count"} : kw[f] < 0 }

\* Keyword arguments Metrics(...) is called with: values on and beyond every
\* bound, and the values generate_metrics computes at the ends of its draws.
MetricsArguments ==
    [test_pass_rate      : {0 - 1, 0, 100, 101},
     coverage            : {0 - 1, 0, 100, 101},
     performance_score   : {0, 100, 101},
     security_score      : {0 - 1, 0, 100, 101},
     ux_score            : {0 - 1, 50},
     style_score         : {90, 101},
     license_compliance  : {TRUE},
     vulnerability_count : {0 - 1, 0, 1}]
    \cup
    { generate_metrics(g, [perf |-> a, sec |-> b, other |-> c, lic |-> l, vuln |-> v]) :
        g \in BOOLEAN, a \in {0, 4}, b \in {0, 4}, c \in {0, 4}, l \in {0, 4},
        v \in {0, 1} }

InitMetrics ==
    /\ call \in { Some(kw) : kw \in MetricsArguments }
    /\ metrics = None
    /\ evaluation = None
    /\ generation = None
    /\ generations = <<>>
    /\ parent_ids = <<>>
    /\ pc = "construct"
    /\ responses = <<>>
    /\ clock = 0
    /\ created_candidates = <<>>

\* Metrics(**kw): pydantic validates the fields; a violated constraint raises
\* ValidationError and no object exists, otherwise the object holds the
\* values as given.
ConstructMetrics ==
    /\ pc = "construct"
    /\ IF field_errors(call[1]) = {}
       THEN metrics' = Some(call[1]) /\ pc' = "score"
       ELSE metrics' = None /\ pc' = "ValidationError"
    /\ UNCHANGED <<created_candidates, evaluation, call, generation, generations, parent_ids,
                   responses, clock>>

\* generate_candidate, after generate_metrics returned the object: the gates
\* and the scores
ScoreMetrics ==
    /\ pc = "score"
    /\ evaluation' = Some(Evaluate(metrics[1]))
    /\ pc' = "done"
    /\ UNCHANGED <<created_candidates, metrics, call, generation, generations, parent_ids,
                   responses, clock>>

NextMetrics == ConstructMetrics \/ ScoreMetrics

SpecMetrics == InitMetrics /\ [][NextMetrics]_vars

(***************************************************************************)
(* One call of generate_generation                                         *)
(***************************************************************************)
\* The calls without parents to sample: generation 0, and a generation after
\* one that left no survivors.  (Calls with parents are those of the run.)
GenerationCalls ==
    { [gen_num |-> 0, parent_candidates |-> <<>>],
      [gen_num |-> 1, parent_candidates |-> <<>>] }

InitGeneration ==
    /\ call \in { Some(c) : c \in GenerationCalls }
    /\ generation = None
    /\ metrics = None
    /\ evaluation = None
    /\ generations = <<>>
    /\ parent_ids = <<>>
    /\ pc = "idle"
    /\ responses = <<>>
    /\ clock = 0
    /\ created_candidates = <<>>

GenerateGeneration ==
    /\ generation = None
    /\ \E n \in num_candidates(call[1].gen_num, GenCandidates) :
       \E cd \in [1..n -> CandidateDraws(GenAxes, call[1].parent_candidates)] :
          LET created   == new_candidates(call[1].gen_num,
                                          call[1].parent_candidates, cd)
              survivors == select_survivors(passing_candidates(created))
          IN  /\ created_candidates' = created
              /\ \E fl \in [1..Len(survivors) -> BOOLEAN] :
                    generation' = Some(sealed_generation(call[1].gen_num, created,
                                                         survivors, fl, <<0, 0, 0>>))
    /\ UNCHANGED <<metrics, evaluation, call, generations, parent_ids, pc,
                 responses, clock>>

NextGeneration == GenerateGeneration

SpecGeneration == InitGeneration /\ [][NextGeneration]_vars

(***************************************************************************)
(* Gates, scores and selection of a population with given metrics          *)
(***************************************************************************)
\* The two candidates of the end-to-end scenario
ScenarioA ==
    [test_pass_rate |-> 95, security_score |-> 90, performance_score |-> 85,
     ux_score |-> 80, coverage |-> 90, style_score |-> 90,
     license_compliance |-> TRUE, vulnerability_count |-> 0]

ScenarioB ==
    [test_pass_rate |-> 50, security_score |-> 40, performance_score |-> 50,
     ux_score |-> 50, coverage |-> 50, style_score |-> 60,
     license_compliance |-> FALSE, vulnerability_count |-> 3]

\* A and B, and both with the other's test_pass_rate, vulnerability_count
\* or license_compliance
ScenarioMetrics ==
    { [x EXCEPT !.test_pass_rate = t, !.vulnerability_count = v,
                !.license_compliance = l] :
        x \in {ScenarioA, ScenarioB}, t \in {50, 95}, v \in {0, 3},
        l \in BOOLEAN }

InitPopulation ==
    /\ call \in { Some([gen_num |-> 0, metrics |-> <<a, b>>]) :
                    a \in ScenarioMetrics, b \in ScenarioMetrics }
    /\ generation = None
    /\ metrics = None
    /\ evaluation = None
    /\ generations = <<>>
    /\ parent_ids = <<>>
    /\ pc = "idle"
    /\ responses = <<>>
    /\ clock = 0
    /\ created_candidates = <<>>

\* generate_generation for generation 0 with the metrics of its candidates
\* given: gates and scores of each candidate, then the selection.
EvaluatePopulation ==
    /\ generation = None
    /\ LET created   == [i \in 1..Len(call[1].metrics) |->
                            candidate_with_metrics(call[1].gen_num, i - 1, <<>>,
                                                   call[1].metrics[i], 1)]
           survivors == select_survivors(passing_candidates(created))
       IN  /\ created_candidates' = created
           /\ \E fl \in [1..Len(survivors) -> BOOLEAN] :
                 generation' = Some(sealed_generation(call[1].gen_num, created,
                                                      survivors, fl, <<0, 0, 0>>))
    /\ UNCHANGED <<metrics, evaluation, call, generations, parent_ids, pc,
                   responses, clock>>

NextPopulation == EvaluatePopulation

SpecPopulation == InitPopulation /\ [][NextPopulation]_vars

(***************************************************************************)
(* create_sample_run                                                       *)
(***************************************************************************)
Init ==
    /\ generations = <<>>
    /\ parent_ids = <<>>
    /\ pc = "loop"
    /\ metrics = None
    /\ evaluation = None
    /\ call = None
    /\ generation = None
    /\ responses = <<>>
    /\ clock = 0
    /\ created_candidates = <<>>

\* one iteration of `for i in range(5)`
LoopStep ==
    /\ pc = "loop"
    /\ Len(generations) < RunGenerations
    /\ \E n \in num_candidates(Len(generations), RunCandidates) :
       \E cd \in [1..n -> CandidateDraws(RunAxes, parent_ids)] :
          LET created   == new_candidates(Len(generations), parent_ids, cd)
              survivors == select_survivors(passing_candidates(created))
          IN  /\ created_candidates' = created
              /\ \E fl \in [1..Len(survivors) -> BOOLEAN] :
                    LET gen == sealed_generation(Len(generations), created,
                                                 survivors, fl, <<0, 0, 0>>)
                    IN  /\ generations' = Append(generations, gen)
                        /\ parent_ids' = gen.survivors
    /\ UNCHANGED <<pc, metrics, evaluation, call, generation,
                 responses, clock>>

\* the loop is over: the run is returned
Return ==
    /\ pc = "loop"
    /\ Len(generations) = RunGenerations
    /\ pc' = "done"
    /\ UNCHANGED <<created_candidates, generations, parent_ids, metrics,
                   evaluation, call, generation,
                 responses, clock>>

Next == LoopStep \/ Return

Spec == Init /\ [][Next]_vars

(***************************************************************************)
(* Prompt DNA and DNA bundles                                              *)
(***************************************************************************)
\* The draws of random.random() in one generate_prompt_dna call, in fifths:
\* for the feedback_integration mutation (> 0.5), for the
\* constraint_refinement mutation (> 0.7), and for the similarity.
PromptDraws ==
    { [feedback |-> 0, constraint |-> 0, similarity |-> 0],
      [feedback |-> 3, constraint |-> 3, similarity |-> 2],
      [feedback |-> 4, constraint |-> 4, similarity |-> 0] }

\* generate_prompt_dna; trust_region_similarity in thousandths
\* (0.85 + random.random() * 0.1).  Generation 0 draws nothing.
generate_prompt_dna(gen_num, candidate_id, parents, d) ==
    [id                      |-> [prompt_dna |-> candidate_id],
     generation              |-> gen_num,
     parent_ids              |-> parents,
     feedback_history        |->
        IF gen_num > 0 THEN <<gen_num - 1, gen_num - 1>> ELSE <<>>,
     mutations               |->
        IF gen_num > 0
        THEN (IF d.feedback * 10 > 25
              THEN <<"feedback_integration">> ELSE <<>>)
             \o (IF d.constraint * 10 > 35
                 THEN <<"constraint_refinement">> ELSE <<>>)
        ELSE <<>>,
     trust_region_similarity |->
        IF gen_num > 0 THEN Some(850 + d.similarity * 20) ELSE None]

\* f"hash-{id}"
provenance_hash(candidate_id) == [hash |-> candidate_id]

\* generate_dna_bundle; now is the time datetime.now() returns
generate_dna_bundle(candidate, d, now) ==
    [id              |-> [bundle |-> candidate.id],
     candidate_id    |-> candidate.id,
     code_layer      |-> [branch |-> candidate.id, commit_id |-> candidate.id],
     prompt_layer    |-> generate_prompt_dna(candidate.generation, candidate.id,
                                             candidate.parent_ids, d),
     evaluator_layer |->
        [anti_cheat_seed |-> candidate.id,
         ucb_stats       |-> <<  [agent_id            |-> candidate.generator_agent_id,
                                  mean_reward         |-> 750,
                                  confidence_interval |-> 50,
                                  exploration_bonus   |-> 80,
                                  total_score         |-> 880,
                                  times_selected      |-> 15]  >>],
     provenance_hash |-> provenance_hash(candidate.id),
     parent_hashes   |-> [i \in 1..Len(candidate.parent_ids) |->
                            provenance_hash(candidate.parent_ids[i])],
     timestamp       |-> now]

(***************************************************************************)
(* The API over SAMPLE_RUN (main.py, get_generation, get_dna_bundle,       *)
(* get_prompt_dna)                                                         *)
(***************************************************************************)
MaxRequests == 2        \* requests served

\* generate_agents: the id and the type of each AgentProfile of the run
generate_agents ==
    << [id |-> "generator-001",            type |-> "generator"],
       [id |-> "generator-002",            type |-> "generator"],
       [id |-> "generator-003",            type |-> "generator"],
       [id |-> "reviewer-security-001",    type |-> "reviewer"],
       [id |-> "reviewer-performance-001", type |-> "reviewer"],
       [id |-> "reviewer-ux-001",          type |-> "reviewer"],
       [id |-> "reviewer-quality-001",     type |-> "reviewer"] >>

\* The draws of the candidates of a generation of the runs that are served:
\* either all candidates are good, or only the last one is (and then fewer
\* than two pass the gates).  Parents are the first two of parent_candidates.
\* The outcomes of randint(1, 3) go round the three generators, starting
\* one further in each generation, or are 3 throughout.
ApiDraws(gen_num, n, parent_candidates) ==
    LET d(good, a) == [is_good |-> good, perf |-> 0, sec |-> 0, other |-> 0,
                       lic |-> 0, vuln |-> 0, agent |-> a,
                       parents |-> SubSeq(parent_candidates, 1,
                                          Min(2, Len(parent_candidates)))]
    IN  { [i \in 1..n |-> d(TRUE, ((gen_num + i - 1) % 3) + 1)],
          [i \in 1..n |-> d(i = n, 3)] }

\* The generations generate_generation can return after the run r
next_generations(r) ==
    LET gen_num == Len(r)
        parents == IF r = <<>> THEN <<>> ELSE r[Len(r)].survivors
    IN  { LET created   == new_candidates(gen_num, parents, cd)
              survivors == select_survivors(passing_candidates(created))
          IN  sealed_generation(gen_num, created, survivors,
                                [i \in 1..Len(survivors) |-> i = 1], <<0, 0, 0>>) :
          cd \in ApiDraws(gen_num, RunCandidates, parents) }

\* The lists of k generations create_sample_run can build from those draws
RECURSIVE sample_runs(_)
sample_runs(k) ==
    IF k = 0 THEN { <<>> }
    ELSE UNION { { Append(r, g) : g \in next_generations(r) } :
                 r \in sample_runs(k - 1) }

InitApi ==
    /\ generations \in sample_runs(RunGenerations)
    /\ parent_ids = <<>>
    /\ pc = "done"
    /\ metrics = None
    /\ evaluation = None
    /\ call = None
    /\ generation = None
    /\ responses = <<>>
    /\ clock = 0
    /\ created_candidates = <<>>

\* the candidate with the given id, None when no generation holds it
find_candidate(candidate_id) ==
    LET at == { <<n, i>> \in (1..Len(generations)) \X (1..RunCandidates) :
                  /\ i <= Len(generations[n].candidates)
                  /\ generations[n].candidates[i].id = candidate_id }
    IN  IF at = {} THEN None
        ELSE LET first == CHOOSE x \in at :
                             \A y \in at : x[1] < y[1] \/ (x[1] = y[1] /\ x[2] <= y[2])
             IN  Some(generations[first[1]].candidates[first[2]])

\* The keys requested: the first candidate of every generation and an id no
\* generation holds; the generation numbers and one below, one above.
RequestIds == { cand_id(g, 0) : g \in 0..RunGenerations }
RequestNumbers == (0 - 1)..RunGenerations

Response(endpoint, key, status, body) ==
    [endpoint |-> endpoint, key |-> key, status |-> status, body |-> body]

\* A lookup without the test 0 <= gen_num: a negative number indexes the list
\* from its end, as SAMPLE_RUN.generations[gen_num] does in Python.
get_generation_negative_index(gen_num) ==
    IF gen_num < Len(generations)
    THEN Response("generation", gen_num, 200,
                  Some(generations[IF gen_num < 0
                                   THEN Len(generations) + gen_num + 1
                                   ELSE gen_num + 1]))
    ELSE Response("generation", gen_num, 404, None)

\* get_generation, and get_generation_data turning its ValueError into 404
get_generation(gen_num) ==
    IF 0 <= gen_num /\ gen_num < Len(generations)
    THEN Response("generation", gen_num, 200, Some(generations[gen_num + 1]))
    ELSE Response("generation", gen_num, 404, None)

\* GET /api/run/sample/generation/{gen_num}
GetGeneration ==
    /\ pc = "done"
    /\ Len(responses) < MaxRequests
    /\ \E gen_num \in RequestNumbers :
          responses' = Append(responses, get_generation(gen_num))
    /\ UNCHANGED <<created_candidates, metrics, evaluation, call, generation, generations,
                   parent_ids, pc, clock>>

\* GET /api/run/sample/dna/{candidate_id}
GetDnaBundle ==
    /\ pc = "done"
    /\ Len(responses) < MaxRequests
    /\ \E candidate_id \in RequestIds, d \in PromptDraws, now \in {clock, clock + 1} :
          LET found == find_candidate(candidate_id)
          IN  IF found = None
              THEN /\ responses' = Append(responses,
                          Response("dna", candidate_id, 404, None))
                   /\ clock' = clock
              ELSE /\ responses' = Append(responses,
                          Response("dna", candidate_id, 200,
                                   Some(generate_dna_bundle(found[1], d, now))))
                   /\ clock' = now
    /\ UNCHANGED <<created_candidates, metrics, evaluation, call, generation, generations,
                   parent_ids, pc>>

\* GET /api/run/sample/prompt/{candidate_id}
GetPromptDna ==
    /\ pc = "done"
    /\ Len(responses) < MaxRequests
    /\ \E candidate_id \in RequestIds, d \in PromptDraws :
          LET found == find_candidate(candidate_id)
          IN  responses' = Append(responses,
                  IF found = None
                  THEN Response("prompt", candidate_id, 404, None)
                  ELSE Response("prompt", candidate_id, 200,
                                Some(generate_prompt_dna(found[1].generation,
                                                         found[1].id,
                                                         found[1].parent_ids, d))))
    /\ UNCHANGED <<created_candidates, metrics, evaluation, call, generation, generations,
                   parent_ids, pc, clock>>


(***************************************************************************)
(* The fixed run of the backend variant (demo_data.py)                     *)
(***************************************************************************)
\* The candidates of the four generations, with the fields that carry the
\* lineage, the metrics (in percent), the gate status and the selection.
GEN1_CANDIDATES ==
    <<  [id |-> "c1_1", parent_ids |-> <<>>,
         metrics |-> [test_pass_rate |-> 60,
                      coverage |-> 55,
                      security_score |-> 85,
                      performance_score |-> 50,
                      ux_score |-> 45,
                      functionality_score |-> 65,
                      style_compliance |-> 70],
         gates_passed |-> FALSE,
         failed_gates |-> <<"test_pass_rate < 0.70">>,
         is_pareto_front |-> FALSE,
         selected_for_breeding |-> FALSE],
        [id |-> "c1_2", parent_ids |-> <<>>,
         metrics |-> [test_pass_rate |-> 75,
                      coverage |-> 60,
                      security_score |-> 50,
                      performance_score |-> 88,
                      ux_score |-> 55,
                      functionality_score |-> 70,
                      style_compliance |-> 65],
         gates_passed |-> FALSE,
         failed_gates |-> <<"security_score < 0.60 (critical vulnerability found)">>,
         is_pareto_front |-> FALSE,
         selected_for_breeding |-> FALSE],
        [id |-> "c1_3", parent_ids |-> <<>>,
         metrics |-> [test_pass_rate |-> 80,
                      coverage |-> 70,
                      security_score |-> 75,
                      performance_score |-> 70,
                      ux_score |-> 65,
                      functionality_score |-> 80,
                      style_compliance |-> 75],
         gates_passed |-> TRUE,
         failed_gates |-> <<>>,
         is_pareto_front |-> TRUE,
         selected_for_breeding |-> TRUE],
        [id |-> "c1_4", parent_ids |-> <<>>,
         metrics |-> [test_pass_rate |-> 72,
                      coverage |-> 65,
                      security_score |-> 70,
                      performance_score |-> 60,
                      ux_score |-> 90,
                      functionality_score |-> 75,
                      style_compliance |-> 80],
         gates_passed |-> TRUE,
         failed_gates |-> <<>>,
         is_pareto_front |-> TRUE,
         selected_for_breeding |-> TRUE]  >>

GEN2_CANDIDATES ==
    <<  [id |-> "c2_1", parent_ids |-> <<"c1_3">>,
         metrics |-> [test_pass_rate |-> 88,
                      coverage |-> 82,
                      security_score |-> 78,
                      performance_score |-> 72,
                      ux_score |-> 70,
                      functionality_score |-> 85,
                      style_compliance |-> 80],
         gates_passed |-> TRUE,
         failed_gates |-> <<>>,
         is_pareto_front |-> TRUE,
         selected_for_breeding |-> TRUE],
        [id |-> "c2_2", parent_ids |-> <<"c1_3">>,
         metrics |-> [test_pass_rate |-> 85,
                      coverage |-> 75,
                      security_score |-> 92,
                      performance_score |-> 68,
                      ux_score |-> 68,
                      functionality_score |-> 82,
                      style_compliance |-> 78],
         gates_passed |-> TRUE,
         failed_gates |-> <<>>,
         is_pareto_front |-> TRUE,
         selected_for_breeding |-> TRUE],
        [id |-> "c2_3", parent_ids |-> <<"c1_3">>,
         metrics |-> [test_pass_rate |-> 82,
                      coverage |-> 72,
                      security_score |-> 76,
                      performance_score |-> 85,
                      ux_score |-> 67,
                      functionality_score |-> 83,
                      style_compliance |-> 77],
         gates_passed |-> TRUE,
         failed_gates |-> <<>>,
         is_pareto_front |-> TRUE,
         selected_for_breeding |-> TRUE],
        [id |-> "c2_4", parent_ids |-> <<"c1_4">>,
         metrics |-> [test_pass_rate |-> 80,
                      coverage |-> 70,
                      security_score |-> 74,
                      performance_score |-> 65,
                      ux_score |-> 93,
                      functionality_score |-> 82,
                      style_compliance |-> 85],
         gates_passed |-> TRUE,
         failed_gates |-> <<>>,
         is_pareto_front |-> TRUE,
         selected_for_breeding |-> TRUE],
        [id |-> "c2_5", parent_ids |-> <<"c1_4">>,
         metrics |-> [test_pass_rate |-> 70,
                      coverage |-> 60,
                      security_score |-> 72,
                      performance_score |-> 62,
                      ux_score |-> 92,
                      functionality_score |-> 78,
                      style_compliance |-> 82],
         gates_passed |-> FALSE,
         failed_gates |-> <<"test_pass_rate < 0.70">>,
         is_pareto_front |-> FALSE,
         selected_for_breeding |-> FALSE]  >>

GEN3_CANDIDATES ==
    <<  [id |-> "c3_1", parent_ids |-> <<"c2_1">>,
         metrics |-> [test_pass_rate |-> 92,
                      coverage |-> 88,
                      security_score |-> 85,
                      performance_score |-> 75,
                      ux_score |-> 75,
                      functionality_score |-> 90,
                      style_compliance |-> 85],
         gates_passed |-> TRUE,
         failed_gates |-> <<>>,
         is_pareto_front |-> TRUE,
         selected_for_breeding |-> TRUE],
        [id |-> "c3_2", parent_ids |-> <<"c2_2">>,
         metrics |-> [test_pass_rate |-> 90,
                      coverage |-> 82,
                      security_score |-> 96,
                      performance_score |-> 70,
                      ux_score |-> 72,
                      functionality_score |-> 88,
                      style_compliance |-> 82],
         gates_passed |-> TRUE,
         failed_gates |-> <<>>,
         is_pareto_front |-> TRUE,
         selected_for_breeding |-> TRUE],
        [id |-> "c3_3", parent_ids |-> <<"c2_1", "c2_3">>,
         metrics |-> [test_pass_rate |-> 90,
                      coverage |-> 85,
                      security_score |-> 82,
                      performance_score |-> 88,
                      ux_score |-> 73,
                      functionality_score |-> 88,
                      style_compliance |-> 83],
         gates_passed |-> TRUE,
         failed_gates |-> <<>>,
         is_pareto_front |-> TRUE,
         selected_for_breeding |-> TRUE],
        [id |-> "c3_4", parent_ids |-> <<"c2_4">>,
         metrics |-> [test_pass_rate |-> 88,
                      coverage |-> 80,
                      security_score |-> 80,
                      performance_score |-> 72,
                      ux_score |-> 95,
                      functionality_score |-> 87,
                      style_compliance |-> 88],
         gates_passed |-> TRUE,
         failed_gates |-> <<>>,
         is_pareto_front |-> TRUE,
         selected_for_breeding |-> TRUE]  >>

GEN4_CANDIDATES ==
    <<  [id |-> "c4_1", parent_ids |-> <<"c3_1", "c3_3">>,
         metrics |-> [test_pass_rate |-> 95,
                      coverage |-> 92,
                      security_score |-> 90,
                      performance_score |-> 85,
                      ux_score |-> 82,
                      functionality_score |-> 95,
                      style_compliance |-> 90],
         gates_passed |-> TRUE,
         failed_gates |-> <<>>,
         is_pareto_front |-> TRUE,
         selected_for_breeding |-> TRUE],
        [id |-> "c4_2", parent_ids |-> <<"c3_2">>,
         metrics |-> [test_pass_rate |-> 92,
                      coverage |-> 85,
                      security_score |-> 98,
                      performance_score |-> 72,
                      ux_score |-> 75,
                      functionality_score |-> 90,
                      style_compliance |-> 85],
         gates_passed |-> TRUE,
         failed_gates |-> <<>>,
         is_pareto_front |-> TRUE,
         selected_for_breeding |-> FALSE],
        [id |-> "c4_3", parent_ids |-> <<"c3_3", "c3_4">>,
         metrics |-> [test_pass_rate |-> 90,
                      coverage |-> 85,
                      security_score |-> 85,
                      performance_score |-> 92,
                      ux_score |-> 90,
                      functionality_score |-> 92,
                      style_compliance |-> 88],
         gates_passed |-> TRUE,
         failed_gates |-> <<>>,
         is_pareto_front |-> TRUE,
         selected_for_breeding |-> TRUE]  >>

GENERATIONS ==
    <<  [generation_number |-> 1, candidates |-> GEN1_CANDIDATES],
        [generation_number |-> 2, candidates |-> GEN2_CANDIDATES],
        [generation_number |-> 3, candidates |-> GEN3_CANDIDATES],
        [generation_number |-> 4, candidates |-> GEN4_CANDIDATES]  >>

\* DNA_BUNDLE_EXAMPLE: the one bundle of the backend variant, with its
\* identity and lineage
DNA_BUNDLE_EXAMPLE ==
    [line_id        |-> "line_c3_1",
     branch_ref     |-> "gad/gen3/candidate1",
     selector_state |-> [generation |-> 3, parent_ids |-> <<"c2_1">>],
     provenance     |-> [lineage |-> <<"c1_3", "c2_1", "c3_1">>,
                         generation_created |-> 3]]

\* demo_data.get_generation, and get_generation_details turning None into 404
backend_get_generation(run_id, generation_number) ==
    IF run_id = "run_001" /\ 1 <= generation_number /\ generation_number <= 4
    THEN Response("backend/generation", <<run_id, generation_number>>, 200,
                  Some(GENERATIONS[generation_number]))
    ELSE Response("backend/generation", <<run_id, generation_number>>, 404, None)

\* demo_data.get_dna_bundle, and get_dna_bundle_details turning None into 404
backend_get_dna_bundle(run_id, line_id) ==
    IF run_id = "run_001" /\ line_id = "line_c3_1"
    THEN Response("backend/dna", <<run_id, line_id>>, 200, Some(DNA_BUNDLE_EXAMPLE))
    ELSE Response("backend/dna", <<run_id, line_id>>, 404, None)

\* The keys requested of the backend variant
BackendRunIds == {"run_001", "run_002"}
BackendNumbers == {0, 1, 2, 4, 5}
BackendLineIds == {"line_c3_1", "line_c4_1", "line_c9_9"}

\* GET /runs/{run_id}/generations/{generation_number}
BackendGetGeneration ==
    /\ pc = "done"
    /\ Len(responses) < MaxRequests
    /\ \E run_id \in BackendRunIds, generation_number \in BackendNumbers :
          responses' = Append(responses,
                              backend_get_generation(run_id, generation_number))
    /\ UNCHANGED <<created_candidates, metrics, evaluation, call, generation, generations,
                   parent_ids, pc, clock>>

\* GET /runs/{run_id}/dna/{line_id}
BackendGetDnaBundle ==
    /\ pc = "done"
    /\ Len(responses) < MaxRequests
    /\ \E run_id \in BackendRunIds, line_id \in BackendLineIds :
          responses' = Append(responses, backend_get_dna_bundle(run_id, line_id))
    /\ UNCHANGED <<created_candidates, metrics, evaluation, call, generation, generations,
                   parent_ids, pc, clock>>

(***************************************************************************)
(* The lookups of both variants                                            *)
(***************************************************************************)
NextApi ==
    \/ GetGeneration
    \/ GetDnaBundle
    \/ GetPromptDna
    \/ BackendGetGeneration
    \/ BackendGetDnaBundle

SpecApi == InitApi /\ [][NextApi]_vars

(***************************************************************************)
(* Claims about gate evaluation and scoring (SpecEval)                     *)
(***************************************************************************)
Evaluated == evaluation # None

\* C1: gates_passed is the AND of the passed flags of the four gate results;
\* a test_pass_rate below 0.80 gives gates_passed = false whatever the other
\* fields are.
C1_GatesPassedIsAndOfGates ==
    Evaluated =>
        LET e == evaluation[1]
        IN  /\ Len(e.gate_results) = 4
            /\ e.gates_passed <=> (\A i \in 1..4 : e.gate_results[i].passed)
            /\ metrics.test_pass_rate < 80 => ~e.gates_passed

\* C1 witness: only the test pass rate is below its threshold, and the
\* candidate fails.
C1_Witness ==
    /\ Evaluated
    /\ metrics.test_pass_rate = 79
    /\ metrics.security_score = 90
    /\ metrics.vulnerability_count = 0
    /\ metrics.license_compliance
    /\ ~evaluation[1].gates_passed

\* C2: exactly four results in the fixed order, each passed flag given by its
\* own predicate alone (thresholds included), every gate reported whatever
\* the earlier ones said.
C2_FourGatesNoShortCircuit ==
    Evaluated =>
        LET g == evaluation[1].gate_results
        IN  /\ Len(g) = 4
            /\ g[1].gate_name = "Minimum Test Pass Rate"
            /\ g[2].gate_name = "Security Threshold"
            /\ g[3].gate_name = "Zero Critical Vulnerabilities"
            /\ g[4].gate_name = "License Compliance"
            /\ g[1].passed <=> (metrics.test_pass_rate >= 80)
            /\ g[2].passed <=> (metrics.security_score >= 70)
            /\ g[3].passed <=> (metrics.vulnerability_count = 0)
            /\ g[4].passed <=> metrics.license_compliance

\* C2 witness: the first gate fails, the second passes on its boundary value,
\* the third fails and the fourth passes: all four are reported.
C2_Witness ==
    /\ Evaluated
    /\ metrics.test_pass_rate = 79
    /\ metrics.security_score = 70
    /\ metrics.vulnerability_count = 1
    /\ metrics.license_compliance
    /\ Len(evaluation[1].gate_results) = 4
    /\ ~evaluation[1].gate_results[1].passed
    /\ evaluation[1].gate_results[2].passed
    /\ ~evaluation[1].gate_results[3].passed
    /\ evaluation[1].gate_results[4].passed

\* C4: the score with gates_passed = false is exactly half of the score of
\* the same metrics with gates_passed = true, the recorded score is one of the
\* two, and the breakdown does not depend on the gates.
C4_PenaltyIsExactHalf ==
    Evaluated =>
        LET e == evaluation[1]
        IN  /\ 2 * effective_score(metrics, FALSE) = effective_score(metrics, TRUE)
            /\ e.effective_score = effective_score(metrics, e.gates_passed)
            /\ e.gates_passed => e.effective_score = effective_score(metrics, TRUE)
            /\ ~e.gates_passed =>
                   2 * e.effective_score = effective_score(metrics, TRUE)
            /\ e.weighted_scores = weighted_scores(metrics)

\* C4 witness: a failing candidate with a positive score (48.5 points halved
\* to 24.25, which is 4850 in 1/200 point).
C4_Witness ==
    /\ Evaluated
    /\ ~evaluation[1].gates_passed
    /\ effective_score(metrics, TRUE) = 9700
    /\ evaluation[1].effective_score = 4850

(***************************************************************************)
(* Claims about one generation (SpecGeneration)                            *)
(***************************************************************************)
Generated == generation # None

Indices(s) == 1..Len(s)

Range(s) == { s[i] : i \in 1..Len(s) }

PassingOf(g) == { i \in Indices(g.candidates) : g.candidates[i].gates_passed }

SumOfWeighted(w) ==
    w.test_pass_rate + w.security + w.performance + w.ux + w.coverage + w.style

\* C3: the six entries of weighted_scores are 0.25*(100*test_pass_rate),
\* 0.25*security, 0.15*performance, 0.15*ux, 0.10*(100*coverage), 0.10*style
\* (here in 1/200 point, the fractions in percent), and effective_score is
\* their sum when the gates passed and half their sum when they did not.
C3_ScoreIsWeightedSum ==
    Generated =>
        \A i \in Indices(generation[1].candidates) :
            LET c == generation[1].candidates[i]
                m == c.metrics
                w == c.weighted_scores
            IN  /\ w.test_pass_rate = 50 * m.test_pass_rate
                /\ w.security = 50 * m.security_score
                /\ w.performance = 30 * m.performance_score
                /\ w.ux = 30 * m.ux_score
                /\ w.coverage = 20 * m.coverage
                /\ w.style = 20 * m.style_score
                /\ c.gates_passed => c.effective_score = SumOfWeighted(w)
                /\ ~c.gates_passed => 2 * c.effective_score = SumOfWeighted(w)

\* C3 witness: a generation with a passing and a failing candidate, both scored.
C3_Witness ==
    /\ Generated
    /\ \E i, j \in Indices(generation[1].candidates) :
          /\ generation[1].candidates[i].gates_passed
          /\ generation[1].candidates[i].effective_score > 0
          /\ ~generation[1].candidates[j].gates_passed
          /\ generation[1].candidates[j].effective_score > 0

\* A dominates B on (security_score, performance_score)
Dominates(a, b) ==
    /\ a.metrics.security_score >= b.metrics.security_score
    /\ a.metrics.performance_score >= b.metrics.performance_score
    /\ \/ a.metrics.security_score > b.metrics.security_score
       \/ a.metrics.performance_score > b.metrics.performance_score

ListedInParetoFront(g, c) ==
    \E k \in Indices(g.pareto_front) : g.pareto_front[k].candidate_id = c.id

\* C5 (as claimed): no candidate marked as on the Pareto front, by its flag
\* or by the generation's pareto_front list, is dominated by another candidate
\* of the generation.
C5_FrontMembersNotDominated ==
    Generated =>
        LET g == generation[1]
        IN  \A i \in Indices(g.candidates) :
                (g.candidates[i].is_pareto_front
                    \/ ListedInParetoFront(g, g.candidates[i]))
                => \A j \in Indices(g.candidates) :
                       ~Dominates(g.candidates[j], g.candidates[i])

\* C6 (as claimed): every gate-passing candidate that no other gate-passing
\* candidate dominates is in the front, and candidates of identical
\* coordinates are both in or both out.
C6_FrontIsComplete ==
    Generated =>
        LET g == generation[1]
            cs == g.candidates
        IN  /\ \A i \in PassingOf(g) :
                   (\A j \in PassingOf(g) : ~Dominates(cs[j], cs[i]))
                   => (cs[i].is_pareto_front /\ ListedInParetoFront(g, cs[i]))
            /\ \A i, j \in Indices(cs) :
                   (/\ cs[i].metrics.security_score = cs[j].metrics.security_score
                    /\ cs[i].metrics.performance_score
                           = cs[j].metrics.performance_score)
                   => /\ cs[i].is_pareto_front = cs[j].is_pareto_front
                      /\ ListedInParetoFront(g, cs[i])
                             = ListedInParetoFront(g, cs[j])

\* C7 (as claimed): a candidate that failed its gates is never on the Pareto
\* front, neither by its flag nor in the generation's pareto_front list.
C7_OnlyPassingOnFront ==
    Generated =>
        LET g == generation[1]
        IN  \A i \in Indices(g.candidates) :
                ~g.candidates[i].gates_passed
                => /\ ~g.candidates[i].is_pareto_front
                   /\ ~ListedInParetoFront(g, g.candidates[i])

CandidateOf(g, id) ==
    CHOOSE c \in Range(g.candidates) : c.id = id

\* C8: with at least 2 gate-passing candidates the survivors are the first
\* min(3, passing) of them by descending effective_score: each is a passing
\* candidate of the generation, none is listed twice, they are in descending
\* order, and no passing candidate left out has a strictly higher score than
\* a survivor.
C8_SurvivorsAreTopPassing ==
    Generated =>
        LET g == generation[1]
            s == g.survivors
            passing == { g.candidates[i] : i \in PassingOf(g) }
        IN  Cardinality(passing) >= 2 =>
               /\ Len(s) = Min(3, Cardinality(passing))
               /\ \A k \in Indices(s) : \E c \in passing : c.id = s[k]
               /\ \A k, l \in Indices(s) : k # l => s[k] # s[l]
               /\ \A k, l \in Indices(s) :
                      k < l => CandidateOf(g, s[k]).effective_score
                                   >= CandidateOf(g, s[l]).effective_score
               /\ \A c \in passing :
                      c.id \notin Range(s)
                      => \A k \in Indices(s) :
                            c.effective_score <= CandidateOf(g, s[k]).effective_score

\* C8 witness: four candidates pass, the one created first has a lower score
\* than one created later and is cut from the survivors.
C8_Witness ==
    /\ Generated
    /\ Cardinality(PassingOf(generation[1])) >= 4
    /\ Len(generation[1].survivors) = 3
    /\ generation[1].candidates[1].gates_passed
    /\ generation[1].candidates[1].id \notin Range(generation[1].survivors)
    /\ \E k \in Indices(generation[1].survivors) :
          CandidateOf(generation[1], generation[1].survivors[k]).effective_score
              > generation[1].candidates[1].effective_score

\* C9: with fewer than 2 gate-passing candidates there are no survivors, no
\* breeding pairs and no candidate selected for breeding; a survivor list of
\* length 1 is never produced.
C9_FewerThanTwoPassingNoSurvivors ==
    Generated =>
        LET g == generation[1]
        IN  /\ Len(g.survivors) # 1
            /\ Cardinality(PassingOf(g)) < 2 =>
                  /\ g.survivors = <<>>
                  /\ g.breeding_pairs = <<>>
                  /\ \A i \in Indices(g.candidates) :
                         ~g.candidates[i].selected_for_breeding

\* C9 witness: exactly one candidate passes its gates.
C9_Witness ==
    /\ Generated
    /\ Cardinality(PassingOf(generation[1])) = 1
    /\ generation[1].survivors = <<>>

(***************************************************************************)
(* Claims about the run (Spec)                                             *)
(***************************************************************************)
\* C10 (as claimed): a generation with fewer than 2 gate-passing candidates
\* ends the run: no generation with a greater number is produced.
C10_DeadEndIsTerminal ==
    \A n \in Indices(generations) :
        Cardinality(PassingOf(generations[n])) < 2
        => \A k \in Indices(generations) :
               generations[k].number <= generations[n].number

(***************************************************************************)
(* Claims about breeding pairs and the determinism of the selection        *)
(***************************************************************************)
\* C11: for survivors s1..sm in rank order the breeding pairs are exactly
\* (s1,s2), (s1,s3), ..., (s1,sm): both ids of a pair are survivors, no pair
\* joins a survivor with itself, no unordered pair occurs twice.
C11_PairsJoinTopSurvivorWithEachOther ==
    Generated =>
        LET g == generation[1]
            m == Len(g.survivors)
        IN  /\ g.breeding_pairs =
                  [i \in 1..Max(0, m - 1) |-> <<g.survivors[1], g.survivors[i + 1]>>]
            /\ \A i \in Indices(g.breeding_pairs) :
                   /\ g.breeding_pairs[i][1] \in Range(g.survivors)
                   /\ g.breeding_pairs[i][2] \in Range(g.survivors)
                   /\ g.breeding_pairs[i][1] # g.breeding_pairs[i][2]
            /\ \A i, j \in Indices(g.breeding_pairs) :
                   i # j => Range(g.breeding_pairs[i]) # Range(g.breeding_pairs[j])

\* C11 witness: three survivors, hence the two pairs (s1,s2) and (s1,s3).
C11_Witness ==
    /\ Generated
    /\ Len(generation[1].survivors) = 3
    /\ Len(generation[1].breeding_pairs) = 2
    /\ generation[1].breeding_pairs[2] =
           <<generation[1].survivors[1], generation[1].survivors[3]>>

ParentsNamed(candidates) ==
    UNION { Range(candidates[i].parent_ids) : i \in Indices(candidates) }

EarlierIds(gens, n) ==
    UNION { { gens[k].candidates[i].id : i \in Indices(gens[k].candidates) } :
            k \in 1..(n - 1) }

LineageIsSound(gens) ==
    \A n \in Indices(gens) :
        \A i \in Indices(gens[n].candidates) :
            /\ Len(gens[n].candidates[i].parent_ids) \in {0, 1, 2}
            /\ Range(gens[n].candidates[i].parent_ids) \subseteq EarlierIds(gens, n)

\* C14: in every state of the run, and in the fixed run of the backend
\* variant, a candidate has 0, 1 or 2 parent_ids and each of them is the id
\* of a candidate of a strictly earlier generation of the same run.
C14_ParentsAreEarlierCandidates ==
    /\ LineageIsSound(generations)
    /\ LineageIsSound(GENERATIONS)

\* C14 witness: three candidates survive generation 0 and a candidate of
\* generation 1 names two of them as its parents.
C14_Witness ==
    /\ Len(generations) = 2
    /\ Len(generations[1].survivors) = 3
    /\ \E i \in Indices(generations[2].candidates) :
           /\ Len(generations[2].candidates[i].parent_ids) = 2
           /\ Range(generations[2].candidates[i].parent_ids)
                 \subseteq Range(generations[1].survivors)

(***************************************************************************)
(* Claims about DNA bundles (SpecApi)                                      *)
(***************************************************************************)
\* The positions of the responses that carry a DNA bundle
BundleResponses ==
    { i \in Indices(responses) :
        responses[i].endpoint = "dna" /\ responses[i].status = 200 }

\* C15 (as claimed): two calls that build the bundle of the same candidate
\* return bundles equal in every field.
C15_BundleIsIdempotent ==
    \A i, j \in BundleResponses :
        responses[i].key = responses[j].key
        => responses[i].body = responses[j].body

\* C16 (as claimed): every parent hash of a bundle is the provenance hash of
\* the bundle of a candidate of an earlier generation, and a bundle has no
\* parent hashes only if its candidate is in generation 0.
C16_HashChainEndsAtGenerationZero ==
    \A i \in BundleResponses :
        LET b == responses[i].body[1]
        IN  /\ \A h \in Range(b.parent_hashes) :
                   \E p \in EarlierIds(generations, b.prompt_layer.generation + 1) :
                       h = provenance_hash(p)
            /\ b.parent_hashes = <<>> => b.prompt_layer.generation = 0

(***************************************************************************)
(* Claims about the validation of Metrics (SpecMetrics)                    *)
(***************************************************************************)
\* The declared ranges: fractions in [0,1] (held in percent), scores in
\* [0,100], a count that is not negative.
InDeclaredRange(m) ==
    /\ m.test_pass_rate >= 0 /\ m.test_pass_rate <= 100
    /\ m.coverage >= 0 /\ m.coverage <= 100
    /\ m.security_score >= 0 /\ m.security_score <= 100
    /\ m.performance_score >= 0 /\ m.performance_score <= 100
    /\ m.ux_score >= 0 /\ m.ux_score <= 100
    /\ m.style_score >= 0 /\ m.style_score <= 100
    /\ m.vulnerability_count >= 0

\* C18: arguments with a field out of its declared range are rejected with a
\* validation error before any gate or score is computed and no Metrics value
\* is made of them (nothing is clamped); a Metrics value holds the arguments
\* as given, and every one that is scored is in range.
C18_OutOfRangeMetricsRejected ==
    /\ pc # "construct" /\ ~InDeclaredRange(call[1])
       => pc = "ValidationError" /\ metrics = None /\ evaluation = None
    /\ metrics # None => metrics[1] = call[1] /\ InDeclaredRange(metrics[1])
    /\ evaluation # None => metrics # None /\ InDeclaredRange(metrics[1])

\* C18 witness: a coverage above 1 with every other field in range was
\* rejected.
C18_Witness ==
    /\ pc = "ValidationError"
    /\ call[1].coverage > 100
    /\ InDeclaredRange([call[1] EXCEPT !.coverage = 100])
    /\ metrics = None
    /\ evaluation = None

(***************************************************************************)
(* The end-to-end scenario (SpecPopulation)                                *)
(***************************************************************************)
ScenarioEvaluated ==
    /\ generation # None
    /\ call[1].metrics = <<ScenarioA, ScenarioB>>

\* C19 (as claimed): for generation 0 = {A, B}, A passes all four gates, B
\* fails, A's effective_score is 88.75 (17750 in 1/200 point), B's is 23.25
\* (4650), A ranks above B and no candidate survives.
C19_ScenarioAsClaimed ==
    ScenarioEvaluated =>
        LET a == generation[1].candidates[1]
            b == generation[1].candidates[2]
        IN  /\ a.gates_passed /\ \A i \in 1..4 : a.gate_results[i].passed
            /\ ~b.gates_passed
            /\ a.effective_score = 17750
            /\ b.effective_score = 4650
            /\ a.effective_score > b.effective_score
            /\ generation[1].survivors = <<>>

\* C19 (amended): as claimed, with the scores the formula gives: A's
\* effective_score is 89.0 (17800 in 1/200 point), B's is 24.25 (4850), which
\* is 48.5 halved.
C19_ScenarioScores ==
    ScenarioEvaluated =>
        LET a == generation[1].candidates[1]
            b == generation[1].candidates[2]
        IN  /\ a.gates_passed /\ \A i \in 1..4 : a.gate_results[i].passed
            /\ ~b.gates_passed
            /\ a.effective_score = 17800
            /\ b.effective_score = 4850
            /\ 2 * b.effective_score = effective_score(ScenarioB, TRUE)
            /\ a.effective_score > b.effective_score
            /\ passing_candidates(generation[1].candidates) = <<a>>
            /\ generation[1].survivors = <<>>
            /\ generation[1].breeding_pairs = <<>>

\* C19 witness: the scenario has been evaluated and A is its only
\* gate-passing candidate.
C19_Witness ==
    /\ ScenarioEvaluated
    /\ PassingOf(generation[1]) = {1}
    /\ generation[1].survivors = <<>>

(***************************************************************************)
(* The Pareto front under reordering (SpecGeneration)                      *)
(***************************************************************************)
\* The ids of the candidates marked as front members
FrontIds(g) ==
    { g.candidates[i].id : i \in { j \in Indices(g.candidates) :
                                     g.candidates[j].is_pareto_front } }

Reorderings(n) ==
    { p \in [1..n -> 1..n] : \A i, j \in 1..n : i # j => p[i] # p[j] }

\* C20 (as claimed): the front of a generation does not depend on the order
\* of its candidate list: for every permutation of the candidates, the step
\* run on the permuted list (whatever it draws for the flags of its
\* survivors) marks the same set of ids.
C20_FrontInvariantUnderReordering ==
    Generated =>
        LET g       == generation[1]
            created == [i \in Indices(g.candidates) |->
                           [g.candidates[i] EXCEPT !.is_pareto_front = FALSE,
                                                   !.selected_for_breeding = FALSE,
                                                   !.survival_reason = None]]
        IN  \A p \in Reorderings(Len(created)) :
                LET reordered == [i \in Indices(created) |-> created[p[i]]]
                    survivors == select_survivors(passing_candidates(reordered))
                IN  \A fl \in [1..Len(survivors) -> BOOLEAN] :
                        FrontIds(sealed_generation(g.number, reordered, survivors,
                                                   fl, <<0, 0, 0>>))
                          = FrontIds(g)

(***************************************************************************)
(* Claims about the sealed generation (SpecGeneration)                     *)
(***************************************************************************)
\* C21: in a sealed generation a candidate has selected_for_breeding = TRUE
\* if and only if its id is in the survivors list of the generation.
C21_SelectedIffSurvivor ==
    Generated =>
        LET g == generation[1]
        IN  \A i \in Indices(g.candidates) :
                g.candidates[i].selected_for_breeding
                <=> g.candidates[i].id \in Range(g.survivors)

\* C21 witness: four candidates pass, three survive and are selected, the
\* fourth passes its gates and is not selected.
C21_Witness ==
    /\ Generated
    /\ Cardinality(PassingOf(generation[1])) = 4
    /\ Len(generation[1].survivors) = 3
    /\ Cardinality({ i \in Indices(generation[1].candidates) :
                       generation[1].candidates[i].selected_for_breeding }) = 3

(***************************************************************************)
(* Claims about the lookups (SpecApi)                                      *)
(***************************************************************************)
\* The ids of all candidates of the run
RunCandidateIds == EarlierIds(generations, Len(generations) + 1)

LookupAnswersKey(r) ==
    /\ r.endpoint = "generation" =>
          IF \E n \in Indices(generations) : generations[n].number = r.key
          THEN r.status = 200 /\ r.body # None /\ r.body[1].number = r.key
          ELSE r.status = 404 /\ r.body = None
    /\ r.endpoint = "dna" =>
          IF r.key \in RunCandidateIds
          THEN r.status = 200 /\ r.body # None /\ r.body[1].candidate_id = r.key
          ELSE r.status = 404 /\ r.body = None
    /\ r.endpoint = "prompt" =>
          IF r.key \in RunCandidateIds
          THEN r.status = 200 /\ r.body # None
               /\ r.body[1].id = [prompt_dna |-> r.key]
          ELSE r.status = 404 /\ r.body = None
    /\ r.endpoint = "backend/generation" =>
          IF /\ r.key[1] = "run_001"
             /\ \E n \in Indices(GENERATIONS) :
                    GENERATIONS[n].generation_number = r.key[2]
          THEN r.status = 200 /\ r.body # None
               /\ r.body[1].generation_number = r.key[2]
          ELSE r.status = 404 /\ r.body = None
    /\ r.endpoint = "backend/dna" =>
          IF r.key = <<"run_001", DNA_BUNDLE_EXAMPLE.line_id>>
          THEN r.status = 200 /\ r.body = Some(DNA_BUNDLE_EXAMPLE)
          ELSE r.status = 404 /\ r.body = None

AllLookupsAnswerKey ==
    \A i \in Indices(responses) : LookupAnswersKey(responses[i])

FailingLookupChangesNothing ==
    (/\ Len(responses') = Len(responses) + 1
     /\ responses'[Len(responses')].status = 404)
    => UNCHANGED <<generations, parent_ids, pc, clock>>

\* C22: a lookup succeeds exactly when its key exists in the run: a
\* generation lookup returns the generation with the requested number when
\* there is one and 404 otherwise (negative numbers included), a DNA-bundle
\* or prompt-DNA lookup returns 404 for an id no generation holds (and the
\* record of the candidate otherwise), and a failing lookup leaves the run
\* unchanged.
C22_LookupSucceedsIffKeyExists ==
    []AllLookupsAnswerKey /\ [][FailingLookupChangesNothing]_vars

\* C22 witness: the generation below 0 was asked for and refused, and the
\* last generation of the run was asked for and returned.
C22_Witness ==
    /\ Len(responses) = 2
    /\ responses[1].endpoint = "generation"
    /\ responses[1].key = 0 - 1
    /\ responses[1].status = 404
    /\ responses[2].endpoint = "generation"
    /\ responses[2].key = Len(generations) - 1
    /\ responses[2].status = 200

\* Candidate a is ranked before candidate b: higher effective_score, and
\* among equal scores the smaller id (ids of one generation are ordered by
\* their candidate number).
RankedBefore(a, b) ==
    \/ a.effective_score > b.effective_score
    \/ a.effective_score = b.effective_score /\ a.id.cand < b.id.cand

\* C23: the survivor ranking is a total order: survivors are listed by
\* descending effective_score with equal scores in ascending id order, and
\* every survivor is ranked before every gate-passing candidate left out, so
\* the list is determined by the (id, effective_score, gates_passed) triples.
C23_TiesBrokenByAscendingId ==
    Generated =>
        LET g == generation[1]
            s == [r \in Indices(g.survivors) |-> CandidateOf(g, g.survivors[r])]
        IN  /\ \A r1, r2 \in Indices(s) : r1 < r2 => RankedBefore(s[r1], s[r2])
            /\ s # <<>> =>
                  \A i \in PassingOf(g) :
                      g.candidates[i].id \notin Range(g.survivors)
                      => \A r \in Indices(s) : RankedBefore(s[r], g.candidates[i])

\* C23 witness: four candidates pass with equal scores; the three with the
\* smallest ids survive, in id order.
C23_Witness ==
    /\ Generated
    /\ Cardinality(PassingOf(generation[1])) = 4
    /\ \A i, j \in PassingOf(generation[1]) :
           generation[1].candidates[i].effective_score =
           generation[1].candidates[j].effective_score
    /\ generation[1].survivors =
           <<cand_id(generation[1].number, 0), cand_id(generation[1].number, 1),
             cand_id(generation[1].number, 2)>>

(***************************************************************************)
(* Claims about the numbering of the run (Spec)                            *)
(***************************************************************************)
\* C24: in every state of the run the generation at position i of the list
\* (counted from 0) has number i, and every candidate stored in it has
\* generation = i.
C24_GenerationsNumberedInOrder ==
    \A n \in Indices(generations) :
        /\ generations[n].number = n - 1
        /\ \A i \in Indices(generations[n].candidates) :
               generations[n].candidates[i].generation = n - 1

\* C24 witness: the run holds generations 0 and 1, the second with
\* candidates of generation 1.
C24_Witness ==
    /\ Len(generations) = 2
    /\ generations[2].number = 1
    /\ generations[2].candidates # <<>>
    /\ generations[2].candidates[1].generation = 1
    /\ pc = "done"

(***************************************************************************)
(* What the evaluation pass and later generations leave alone (Spec)       *)
(***************************************************************************)
\* The last generation against its candidates as generate_candidate returned
\* them: the pass sets is_pareto_front, selected_for_breeding and the
\* survival_reason that goes with them on the survivors, and nothing else.
EvaluationPassFrame ==
    generations # <<>> =>
        LET g == generations[Len(generations)]
        IN  /\ Len(g.candidates) = Len(created_candidates)
            /\ \A i \in Indices(g.candidates) :
                  LET c  == g.candidates[i]
                      c0 == created_candidates[i]
                  IN  /\ c.id = c0.id
                      /\ c.generation = c0.generation
                      /\ c.parent_ids = c0.parent_ids
                      /\ c.metrics = c0.metrics
                      /\ c.gate_results = c0.gate_results
                      /\ c.gates_passed = c0.gates_passed
                      /\ c.generator_agent_id = c0.generator_agent_id
                      /\ c.effective_score = c0.effective_score
                      /\ c.id \notin Range(g.survivors) => c = c0
                      /\ [c EXCEPT !.is_pareto_front = c0.is_pareto_front,
                                   !.selected_for_breeding = c0.selected_for_breeding,
                                   !.survival_reason = c0.survival_reason] = c0

\* A step of the run leaves every generation it already holds as it is
SealedGenerationsKept ==
    \A n \in Indices(generations) :
        /\ n <= Len(generations')
        /\ generations'[n] = generations[n]

\* C25 (as claimed): the evaluation pass changes only is_pareto_front and
\* selected_for_breeding of a candidate (the score is derived before it):
\* every other field of every candidate of the last generation is as created.
C25_OnlyListedFieldsChange ==
    generations # <<>> =>
        LET g == generations[Len(generations)]
        IN  \A i \in Indices(g.candidates) :
                [g.candidates[i] EXCEPT
                    !.is_pareto_front = created_candidates[i].is_pareto_front,
                    !.selected_for_breeding =
                        created_candidates[i].selected_for_breeding]
                = created_candidates[i]

\* C25 (amended): the evaluation pass of a generation changes only the selection
\* fields of its survivors, which are is_pareto_front, selected_for_breeding
\* and survival_reason; id, generation, parent_ids, metrics, gate_results,
\* gates_passed, generator_agent_id (and the score) stay as created,
\* candidates that do not survive are unchanged, and producing a later
\* generation leaves the candidates, survivors, breeding pairs and allocation
\* snapshot of every earlier one unchanged.
C25_OnlySelectionFieldsChange ==
    []EvaluationPassFrame /\ [][SealedGenerationsKept]_vars

\* C25 witness: generation 1 has been produced after a generation 0 with
\* survivors (whose selection fields were set) and with a candidate that did
\* not survive.
C25_Witness ==
    /\ Len(generations) = 2
    /\ Len(generations[1].survivors) = 2
    /\ Len(generations[1].candidates) = 3
    /\ Len(generations[2].survivors) >= 2
    /\ \E i \in Indices(generations[2].candidates) :
           generations[2].candidates[i] # created_candidates[i]

(***************************************************************************)
(* Claims about the allocation snapshot and the front list (SpecGeneration)*)
(***************************************************************************)
\* C26 (as claimed): in every UCBStats entry of the allocation snapshot of a
\* generation, total_score = mean_reward + exploration_bonus.
C26_TotalScoreIsMeanPlusBonus ==
    Generated =>
        \A i \in Indices(generation[1].ucb_allocations) :
            LET u == generation[1].ucb_allocations[i]
            IN  u.total_score = u.mean_reward + u.exploration_bonus

\* C28 (as claimed): a candidate id appears as a ParetoPoint in
\* Generation.pareto_front if and only if the is_pareto_front flag of that
\* candidate is true.
C28_FrontListAgreesWithFlags ==
    Generated =>
        \A i \in Indices(generation[1].candidates) :
            ListedInParetoFront(generation[1], generation[1].candidates[i])
            <=> generation[1].candidates[i].is_pareto_front

(***************************************************************************)
(* Claims about the prompt DNA served (SpecApi)                            *)
(***************************************************************************)
\* The PromptDNA a successful prompt or DNA-bundle response carries
PromptOf(r) ==
    IF r.endpoint = "prompt" THEN r.body[1] ELSE r.body[1].prompt_layer

\* C27 (as claimed): for a fixed candidate id every get_prompt_dna call and
\* the prompt layer of every DNA bundle built for it return the same
\* PromptDNA, whatever was served before.
C27_PromptDnaIsDeterministic ==
    \A i, j \in { k \in Indices(responses) :
                    /\ responses[k].endpoint \in {"prompt", "dna"}
                    /\ responses[k].status = 200 } :
        responses[i].key = responses[j].key
        => PromptOf(responses[i]) = PromptOf(responses[j])

(***************************************************************************)
(* Claims about agent references (SpecApi)                                 *)
(***************************************************************************)
\* The ids of the agents of type generator in the run's agents list
GeneratorIds ==
    { generate_agents[i].id :
        i \in { k \in 1..Len(generate_agents) :
                  generate_agents[k].type = "generator" } }

\* C29: each candidate's generator_agent_id, each agent_id of every
\* generation's UCB allocations and each agent_id in the evaluator layer of
\* every DNA bundle served is the id of an agent of type generator in the
\* run's agents list.
C29_AgentReferencesResolve ==
    /\ \A n \in Indices(generations) :
          /\ \A i \in Indices(generations[n].candidates) :
                generations[n].candidates[i].generator_agent_id \in GeneratorIds
          /\ \A k \in Indices(generations[n].ucb_allocations) :
                generations[n].ucb_allocations[k].agent_id \in GeneratorIds
    /\ \A r \in Indices(responses) :
          (responses[r].endpoint = "dna" /\ responses[r].status = 200)
          => \A k \in Indices(responses[r].body[1].evaluator_layer.ucb_stats) :
                responses[r].body[1].evaluator_layer.ucb_stats[k].agent_id
                    \in GeneratorIds

\* A run whose candidates name all three generators, with a DNA bundle
\* served for a candidate of generator-002
C29_Witness ==
    /\ { generations[n].candidates[i].generator_agent_id :
           n \in Indices(generations), i \in 1..RunCandidates } = GeneratorIds
    /\ \E r \in Indices(responses) :
          /\ responses[r].endpoint = "dna"
          /\ responses[r].status = 200
          /\ responses[r].body[1].evaluator_layer.ucb_stats[1].agent_id
                = "generator-002"

(***************************************************************************)
(* Claims about the gate status in the fixed run of the backend variant    *)
(***************************************************************************)
\* The candidates of the generations of the fixed run served so far
ScriptedCandidates ==
    UNION { Range(responses[r].body[1].candidates) :
              r \in { k \in Indices(responses) :
                        /\ responses[k].endpoint = "backend/generation"
                        /\ responses[k].status = 200 } }

\* The metrics m violate the threshold a failed_gates entry names
ViolatesNamed(m, entry) ==
    \/ entry = "test_pass_rate < 0.70" /\ m.test_pass_rate < 70
    \/ /\ entry = "security_score < 0.60 (critical vulnerability found)"
       /\ m.security_score < 60

\* C30 (as claimed): for every candidate of every generation the fixed run
\* serves, gates_passed is true iff failed_gates is empty, gates_passed is false
\* exactly when the metrics violate a threshold among test_pass_rate < 0.70
\* and security_score < 0.60, every failed_gates entry names a threshold the
\* metrics violate, and only gate-passing candidates have is_pareto_front or
\* selected_for_breeding set.
C30_GateStatusMatchesMetrics ==
    \A c \in ScriptedCandidates :
        /\ c.gates_passed <=> c.failed_gates = <<>>
        /\ ~c.gates_passed
           <=> (c.metrics.test_pass_rate < 70 \/ c.metrics.security_score < 60)
        /\ \A k \in Indices(c.failed_gates) :
              ViolatesNamed(c.metrics, c.failed_gates[k])
        /\ (c.is_pareto_front \/ c.selected_for_breeding) => c.gates_passed

====
